---- MODULE Spec2Model ----
(***************************************************************************)
(* A model of defiveyor: the HTTP fetch adapter (_do_get behind            *)
(* rate_limited), the source connectors, the aggregator (ingest) and the   *)
(* snapshot publisher with its refresh loop (api.py).                      *)
(*                                                                         *)
(* Seven specifications share the variables:                               *)
(*   SpecFetch   one connector's sequential rate-limited fetches           *)
(*   SpecIngest  one run of ingest(): asyncio.gather over five connectors  *)
(*   Spec        the application: startup, refresh loop, read handlers     *)
(*   SpecLimiter one ContinuousRateLimiter, built by make, called in turn  *)
(*   SpecPure    one call of a function: Asset.map, _filter_records, make, *)
(*               the risk profiles                                         *)
(*   SpecCycle   one refresh cycle, request by request: the five connector *)
(*               tasks, their limiters and the session, gather, the end    *)
(*   SpecCycleFair  SpecCycle with the scheduler's fairness and requests   *)
(*               that do not time out for ever                             *)
(*                                                                         *)
(* Units.  An APY is an integer number of basis points (1e-4), so the      *)
(* floor 0.01 is 100 and yearn's cut-off 2 is 20000. Symbols are tuples of *)
(* one-character strings so that Python's substring test can be computed.  *)
(***************************************************************************)
EXTENDS Integers, Sequences, FiniteSets, TLC

VARIABLES
    \* ---- fetch adapter (ingest.py _do_get, utils.py rate_limited) ----
    fpc,            \* position of the connector task inside _get / _do_get
    attempts,       \* _do_get's local `attempts`
    acquires,       \* history: calls of rate_limiter.next() that returned, this fetch
    sends,          \* history: session.get attempts sent, this fetch
    waits,          \* history: the backoff sleeps of this fetch, in order
    lastOutcome,    \* the outcome of the attempt last sent
    fetchResult,    \* what _get handed to the connector
    fetchesDone,    \* fetches this connector has completed
    now,            \* the clock, in seconds
    last_operation_time,  \* the limiter's field; -1 is None
    \* ---- aggregator (ingest.py ingest) ----
    task,           \* per connector: "running", "done" or "failed"
    out,            \* per connector: the RecordList it returned
    outer,          \* the future asyncio.gather returned
    ingestPc,       \* position of the ingest() coroutine
    ingestResult,   \* ingest()'s return value
    sessionClosed,  \* the aiohttp.ClientSession has been closed
    completed,      \* history: the connectors in the order their tasks finished
    \* ---- api (api.py) ----
    appPc,          \* the startup handler / server
    loopPc,         \* the task running _update_state_loop
    upc,            \* position inside the running _update_state
    owner,          \* who awaits the running _update_state: "init" or "loop"
    cycle,          \* history: number of _update_state calls started
    locals,         \* _update_state's locals: assets, asset_pairs, combined; and
                    \* history: `records` of _update_ingest
    published,      \* asgi_app.state: assets, asset_pairs, combined (+ history gens)
    before,         \* history: `published` when the running cycle started
    reader,         \* one HTTP client doing a single-asset then a pair query
    firstRead,      \* history: what the first read ever served found published
    running,        \* history: the executions of _update_state begun and not yet ended
    timer,          \* now: the clock, in seconds since the latest call of _update_state;
                    \* wake: when the loop's sleep is due; history: ended, since_ended,
                    \* since_started
    \* ---- one rate limiter called sequentially (utils.py ContinuousRateLimiter) ----
    limiter,        \* the object's fields
    nextPc,         \* position of the caller inside next(): "idle" or "sleep"
    nextWait,       \* the argument of the pending asyncio.sleep, in milliseconds
    clock,          \* utcnow(), in milliseconds
    returnTimes,    \* history: the times at which next() returned, in order
    \* ---- one call of a function ----
    fn,             \* the function called
    arg,            \* its argument
    ret,            \* its return value
    called,         \* the call has returned
    \* ---- one refresh cycle, request by request (ingest.py, utils.py, api.py) ----
    conn,           \* per connector task: pc, requests answered, limiter object, session object
    made,           \* the ContinuousRateLimiter objects constructed so far
    future,         \* the future asyncio.gather returned
    closed,         \* the ClientSession of ingest() has been closed
    cyclePc         \* _update_state: "ingest", then "installed" or "failed"

fetchVars == <<fpc, attempts, acquires, sends, waits, lastOutcome, fetchResult, fetchesDone,
               now, last_operation_time>>
ingestVars == <<task, out, outer, ingestPc, ingestResult, sessionClosed, completed>>
apiVars == <<appPc, loopPc, upc, owner, cycle, locals, published, before, reader, firstRead,
             running, timer>>
limiterVars == <<limiter, nextPc, nextWait, clock, returnTimes>>
pureVars == <<fn, arg, ret, called>>
cycleVars == <<conn, made, future, closed, cyclePc>>
vars == <<fetchVars, ingestVars, apiVars, limiterVars, pureVars, cycleVars>>

----------------------------------------------------------------------------
(* supported.py                                                            *)

\* The members of enum Asset in declaration order (iteration order of `for asset in Asset`).
AssetOrder == <<"Bitcoin", "Ethereum", "DAI", "USD_Coin", "USD_Token">>

AssetValue(a) ==
    CASE a = "Bitcoin"   -> <<"B", "T", "C">>
      [] a = "Ethereum"  -> <<"E", "T", "H">>
      [] a = "DAI"       -> <<"D", "A", "I">>
      [] a = "USD_Coin"  -> <<"U", "S", "D", "C">>
      [] a = "USD_Token" -> <<"U", "S", "D", "T">>

is_stable(a) == a \in {"DAI", "USD_Token", "USD_Coin"}

\* Python's `sub in s` on strings.
Contains(sub, s) ==
    \E i \in 1..(Len(s) - Len(sub) + 1) : SubSeq(s, i, i + Len(sub) - 1) = sub

\* The member whose value is a substring that comes last in the enumeration.
Asset_map_last(asset_symbol) ==
    LET hits == {i \in 1..Len(AssetOrder) : Contains(AssetValue(AssetOrder[i]), asset_symbol)}
    IN  IF hits = {} THEN "None"
        ELSE AssetOrder[CHOOSE i \in hits : \A j \in hits : i >= j]

\* Asset.map: the first member whose value is a substring, else None.
Asset_map(asset_symbol) ==
    LET hits == {i \in 1..Len(AssetOrder) : Contains(AssetValue(AssetOrder[i]), asset_symbol)}
    IN  IF hits = {} THEN "None"
        ELSE AssetOrder[CHOOSE i \in hits : \A j \in hits : i <= j]

----------------------------------------------------------------------------
(* ingest.py: records                                                      *)

\* WrappedAsset.wrap; Python's None is the record whose asset is "None".
wrap(symbol) ==
    IF Asset_map(symbol) = "None"
    THEN [asset |-> "None", wrapped_symbol |-> <<>>]
    ELSE [asset |-> Asset_map(symbol), wrapped_symbol |-> symbol]

IsNone(w) == w.asset = "None"

BasicRecord(protocol, assets, apy) ==
    [network |-> "ethereum", protocol |-> protocol, assets |-> assets, apy |-> apy]

\* [f(x) for x in s]
RECURSIVE MapWrap(_)
MapWrap(symbols) ==
    IF symbols = <<>> THEN <<>>
    ELSE <<wrap(Head(symbols))>> \o MapWrap(Tail(symbols))

\* [asset for asset in assets if asset is not None]
RECURSIVE DropNone(_)
DropNone(assets) ==
    IF assets = <<>> THEN <<>>
    ELSE (IF IsNone(Head(assets)) THEN <<>> ELSE <<Head(assets)>>) \o DropNone(Tail(assets))

any_unknown(assets) == \E i \in 1..Len(assets) : IsNone(assets[i])

\* The symbols the payloads below use.
WBTC == <<"W", "B", "T", "C">>
WETH == <<"W", "E", "T", "H">>
USDC == <<"U", "S", "D", "C">>
DAI == <<"D", "A", "I">>
BNT == <<"B", "N", "T">>
renBTC == <<"r", "e", "n", "B", "T", "C">>

BAD_SYMBOLS ==
    { <<"c","r","v","H","B","T","C">>, <<"c","r","v","A","E","T","H","c">>,
      <<"c","r","v","R","E","N","B","T","C">>, <<"c","r","v","B","B","T","C">>,
      <<"c","r","v","S","B","T","C">>, <<"p","B","T","C">>, renBTC,
      <<"p","B","T","C","3","5","A">>, <<"E","T","H","I","X">>,
      <<"c","r","v","S","E","T","H">>, <<"Y","F","-","D","A","I">>,
      <<"B","B","T","C">>, <<"i","m","B","T","C">>, <<"a","n","k","r","E","T","H">>,
      <<"P","E","T","H","1","8","C">>, <<"i","b","B","T","C">>, <<"E","T","H","Y">>,
      <<"C","R","E","T","H","2">>, <<"E","T","H","Y","S">>, <<"s","B","T","C">> }

\* The floor `record.apy >= 0.01`, in basis points.
MinApy == 100

\* The floor read as a strict bound.
KeepAboveFloor(record) ==
    /\ ~ \E i \in 1..Len(record.assets) : record.assets[i].wrapped_symbol \in BAD_SYMBOLS
    /\ record.apy > MinApy

KeepRecord(record) ==
    /\ ~ \E i \in 1..Len(record.assets) : record.assets[i].wrapped_symbol \in BAD_SYMBOLS
    /\ record.apy >= MinApy

RECURSIVE filter_records(_)
filter_records(records) ==
    IF records = <<>> THEN <<>>
    ELSE (IF KeepRecord(Head(records)) THEN <<Head(records)>> ELSE <<>>)
         \o filter_records(Tail(records))

----------------------------------------------------------------------------
(* ingest.py: the connectors, as functions of the JSON their fetch returned *)

\* _ingest_bancor, one pool. fees and liquidity are whole dollars.
\* apy = 365.2425 * fees_24h / liquidity, here in basis points (rounded down).
BancorPool(pool) ==
    LET assets == DropNone(MapWrap(pool.reserves))
    IN  IF pool.dlt_type /= "ethereum" THEN <<>>
        ELSE IF Len(assets) < 1 THEN <<>>
        ELSE IF pool.liquidity <= 0 THEN <<>>
        ELSE <<BasicRecord("bancor", assets, (3652425 * pool.fees_24h) \div pool.liquidity)>>

RECURSIVE ingest_bancor(_)
ingest_bancor(pools) ==
    IF pools = <<>> THEN <<>>
    ELSE BancorPool(Head(pools)) \o ingest_bancor(Tail(pools))

\* _ingest_dydx and _ingest_aave, one market / reserve (same code, other protocol).
SingleEntry(protocol, entry) ==
    LET asset == wrap(entry.symbol)
    IN  IF IsNone(asset) THEN <<>>
        ELSE IF entry.apy <= 0 THEN <<>>
        ELSE <<BasicRecord(protocol, <<asset>>, entry.apy)>>

RECURSIVE ingest_single(_, _)
ingest_single(protocol, entries) ==
    IF entries = <<>> THEN <<>>
    ELSE SingleEntry(protocol, Head(entries)) \o ingest_single(protocol, Tail(entries))

ingest_dydx(markets) == ingest_single("dYdX", markets)

ingest_aave(reserves) == ingest_single("aave", reserves)

\* _ingest_yearn, one vault. `experimental` is the test on the vault's name.
YearnVault(vault) ==
    LET assets == MapWrap(<<vault.displayName>>)
    IN  IF vault.experimental THEN <<>>
        ELSE IF any_unknown(assets) THEN <<>>
        ELSE IF Len(DropNone(assets)) /= 1 THEN <<>>
        ELSE IF vault.apy <= 0 \/ vault.apy >= 20000 THEN <<>>
        ELSE <<BasicRecord("yearn", DropNone(assets), vault.apy)>>

RECURSIVE ingest_yearn(_)
ingest_yearn(vaults) ==
    IF vaults = <<>> THEN <<>>
    ELSE YearnVault(Head(vaults)) \o ingest_yearn(Tail(vaults))

\* _ingest_zapper. z.supported: the protocols listed for "ethereum"; z.pool_stats[key]:
\* the answer of pool-stats/<key>; z.lending_stats: the answer of lending-stats/compound.
\* Tokens with reserve > 0 are wrapped; a yearlyROI of None counts as 0.
RECURSIVE PositiveReserve(_)
PositiveReserve(tokens) ==
    IF tokens = <<>> THEN <<>>
    ELSE (IF Head(tokens).reserve > 0 THEN <<Head(tokens).symbol>> ELSE <<>>)
         \o PositiveReserve(Tail(tokens))

ZapperPool(protocol, pool_stat) ==
    LET assets == MapWrap(PositiveReserve(pool_stat.tokens))
    IN  IF Len(DropNone(assets)) /= 2 \/ any_unknown(assets) THEN <<>>
        ELSE IF pool_stat.yearlyROI <= 0 THEN <<>>
        ELSE <<BasicRecord(protocol, DropNone(assets), pool_stat.yearlyROI)>>

RECURSIVE ZapperPools(_, _)
ZapperPools(protocol, pool_stats) ==
    IF pool_stats = <<>> THEN <<>>
    ELSE ZapperPool(protocol, Head(pool_stats)) \o ZapperPools(protocol, Tail(pool_stats))

\* protocols_mapping in insertion order: (Protocol value, zapper key).
protocols_mapping ==
    << <<"1inch", "1inch">>, <<"sushiswap", "sushiswap">>, <<"uniswap-v2", "uniswap-v2">>,
       <<"aave", "aave">>, <<"compound", "compound">> >>

supported_lending_stats == {"compound"}

RECURSIVE ZapperProtocols(_, _)
ZapperProtocols(i, z) ==
    IF i > Len(protocols_mapping) THEN <<>>
    ELSE LET protocol == protocols_mapping[i][1]
             key == protocols_mapping[i][2]
         IN  (IF key \in z.supported THEN ZapperPools(protocol, z.pool_stats[key]) ELSE <<>>)
             \o (IF key \in supported_lending_stats
                 THEN ingest_single(protocol, z.lending_stats) ELSE <<>>)
             \o ZapperProtocols(i + 1, z)

ingest_zapper(z) == ZapperProtocols(1, z)

----------------------------------------------------------------------------
(* ingest.py: ingest(), one asyncio.gather over the five connectors        *)

\* ingests_tasks, in the order of the list literal.
Connectors == <<"yearn", "bancor", "dydx", "zapper", "aave">>

ConnectorSet == {Connectors[i] : i \in 1..Len(Connectors)}

\* What a connector returns for the JSON its fetches returned.
ConnectorRecords(c, json) ==
    CASE c = "yearn"  -> ingest_yearn(json)
      [] c = "bancor" -> ingest_bancor(json)
      [] c = "dydx"   -> ingest_dydx(json)
      [] c = "zapper" -> ingest_zapper(json)
      [] c = "aave"   -> ingest_aave(json)

\* The upstream answers the model draws from.
Pool(reserves, fees, liquidity) ==
    [dlt_type |-> "ethereum", reserves |-> reserves, fees_24h |-> fees, liquidity |-> liquidity]

Entry(symbol, apy) == [symbol |-> symbol, apy |-> apy]

Vault(displayName, apy) == [experimental |-> FALSE, displayName |-> displayName, apy |-> apy]

ZapperJson(supported, pools, lending) ==
    [supported |-> supported,
     pool_stats |-> [k \in {"1inch", "sushiswap", "uniswap-v2", "aave", "compound"} |-> pools],
     lending_stats |-> lending]

Token(symbol, reserve) == [symbol |-> symbol, reserve |-> reserve]

Upstream(c) ==
    CASE c = "yearn"  -> { <<>>, <<Vault(DAI, 500)>>, <<Vault(WETH, 50), Vault(USDC, 500)>> }
      [] c = "bancor" -> { <<>>,
                           <<Pool(<<WBTC, BNT>>, 1, 1000)>>,
                           <<Pool(<<WETH, USDC>>, 2, 1000), Pool(<<renBTC, BNT>>, 9, 1000)>>,
                           <<Pool(<<WBTC, WETH, USDC>>, 1, 1000)>>,
                           <<Pool(<<WETH, DAI>>, 0, 1000)>> }
      [] c = "dydx"   -> { <<>>, <<Entry(DAI, 300)>>, <<Entry(WETH, 0), Entry(USDC, 500)>> }
      [] c = "zapper" -> { ZapperJson({}, <<>>, <<>>),
                           ZapperJson({"uniswap-v2"},
                                      <<[tokens |-> <<Token(WBTC, 5), Token(WETH, 7)>>,
                                         yearlyROI |-> 700]>>,
                                      <<Entry(USDC, 200)>>) }
      [] c = "aave"   -> { <<>>, <<Entry(USDC, 400)>>, <<Entry(BNT, 900), Entry(WETH, 300)>> }

\* The lists in the order the tasks finished (what asyncio.as_completed would give).
RECURSIVE chain_as_completed(_, _)
chain_as_completed(i, results) ==
    IF i > Len(completed) THEN <<>>
    ELSE results[completed[i]] \o chain_as_completed(i + 1, results)

\* chain(*ingest_results): gather's result list is in the order of ingests_tasks.
RECURSIVE chain(_, _)
chain(i, results) ==
    IF i > Len(Connectors) THEN <<>>
    ELSE results[Connectors[i]] \o chain(i + 1, results)

NoRecords == [c \in ConnectorSet |-> <<>>]

IngestIdle ==
    /\ task = [c \in ConnectorSet |-> "idle"]
    /\ out = NoRecords
    /\ outer = "none"
    /\ ingestPc = "idle"
    /\ ingestResult = <<>>
    /\ sessionClosed = FALSE
    /\ completed = <<>>

\* `await asyncio.gather(*ingests_tasks)`: the five coroutines have become tasks.
IngestInit ==
    /\ task = [c \in ConnectorSet |-> "running"]
    /\ out = NoRecords
    /\ outer = "pending"
    /\ ingestPc = "gather"
    /\ ingestResult = <<>>
    /\ sessionClosed = FALSE
    /\ completed = <<>>

\* gather's _done_callback for a child that returned: the outer future gets its
\* result once every child is done (and not before).
GatherChildDone(newTask) ==
    IF outer = "pending" /\ \A c \in ConnectorSet : newTask[c] = "done"
    THEN "result" ELSE outer

\* gather's _done_callback for a child that raised (return_exceptions is False):
\* the outer future gets the exception at once, whatever the siblings are doing.
GatherChildRaised ==
    IF outer = "pending" THEN "exception" ELSE outer

\* A connector's last fetch returns `json` and the connector returns its records.
\* Every await of a connector is a request on the session, so none returns after
\* the session was closed.
ConnectorReturns(c) ==
    /\ task[c] = "running"
    /\ ~sessionClosed
    /\ \E json \in Upstream(c) :
          out' = [out EXCEPT ![c] = ConnectorRecords(c, json)]
    /\ task' = [task EXCEPT ![c] = "done"]
    /\ outer' = GatherChildDone(task')
    /\ completed' = Append(completed, c)
    /\ UNCHANGED <<ingestPc, ingestResult, sessionClosed>>
    /\ UNCHANGED <<fetchVars, apiVars, limiterVars, pureVars, cycleVars>>

\* A fetch of the connector raises (or its JSON has not the expected shape).
ConnectorRaises(c) ==
    /\ task[c] = "running"
    /\ task' = [task EXCEPT ![c] = "failed"]
    /\ outer' = GatherChildRaised
    /\ completed' = Append(completed, c)
    /\ UNCHANGED <<out, ingestPc, ingestResult, sessionClosed>>
    /\ UNCHANGED <<fetchVars, apiVars, limiterVars, pureVars, cycleVars>>

\* ingest() resumes with gather's result: filter, leave `async with`, return.
IngestReturns ==
    /\ ingestPc = "gather"
    /\ outer = "result"
    /\ ingestResult' = filter_records(chain(1, out))
    /\ ingestPc' = "returned"
    /\ sessionClosed' = TRUE
    /\ UNCHANGED <<task, out, outer, completed>>
    /\ UNCHANGED <<fetchVars, apiVars, limiterVars, pureVars, cycleVars>>

\* ingest() resumes with gather's exception: leave `async with`, raise.
IngestRaises ==
    /\ ingestPc = "gather"
    /\ outer = "exception"
    /\ ingestPc' = "raised"
    /\ sessionClosed' = TRUE
    /\ UNCHANGED <<task, out, outer, ingestResult, completed>>
    /\ UNCHANGED <<fetchVars, apiVars, limiterVars, pureVars, cycleVars>>

IngestNext ==
    \/ \E c \in ConnectorSet : ConnectorReturns(c)
    \/ \E c \in ConnectorSet : ConnectorRaises(c)
    \/ IngestReturns
    \/ IngestRaises

----------------------------------------------------------------------------
(* utils.py rate_limited / ContinuousRateLimiter.next and ingest.py _do_get: *)
(* the sequential fetches of one connector through its `_get`               *)

\* Bounds of the fetch model.
MaxFetches == 2
MaxTimeouts == 6
MaxLag == 1

\* operations_per_second=1 in every @rate_limited of ingest.py, so
\* sleep_per_operation_seconds = 1.0 / 1.
sleep_per_operation_seconds == 1

\* _do_get's default timeout_seconds.
timeout_seconds == 10

\* What one `session.get` + `response.text()` + `orjson.loads` can meet. No
\* raise_for_status is requested, so a response is read whatever its status.
Outcomes == {"timeout", "conn_error", "200_json", "200_garbage", "500_json", "500_garbage"}

\* Mutant of retry_timeout_seconds: the exponent is not capped.
retry_uncapped(n) == 2 ^ n

\* retry_timeout_seconds = 2 ** (min(attempts, 5))
retry_timeout_seconds(n) == 2 ^ (IF n < 5 THEN n ELSE 5)

\* time_to_next_op_seconds of ContinuousRateLimiter.next (jitter_seconds is None).
time_to_next_op_seconds ==
    IF last_operation_time /= -1
    THEN sleep_per_operation_seconds - (now - last_operation_time)
    ELSE 0

FetchIdle ==
    /\ fpc = "idle"
    /\ attempts = 0
    /\ acquires = 0
    /\ sends = 0
    /\ waits = <<>>
    /\ lastOutcome = "none"
    /\ fetchResult = "none"
    /\ fetchesDone = 0
    /\ now = 0
    /\ last_operation_time = -1

FetchInit == FetchIdle

\* Mutant of GetCall: _get is not wrapped by rate_limited, next() is never awaited.
GetCallUnlimited ==
    /\ fpc = "idle"
    /\ fetchResult /= "raised"
    /\ fetchesDone < MaxFetches
    /\ attempts' = 0
    /\ sends' = 0
    /\ waits' = <<>>
    /\ lastOutcome' = "none"
    /\ fetchResult' = "none"
    /\ fpc' = "send"
    /\ acquires' = 0
    /\ UNCHANGED <<fetchesDone, now, last_operation_time>>
    /\ UNCHANGED <<ingestVars, apiVars, limiterVars, pureVars, cycleVars>>

\* The connector calls _get: _rate_limited starts `await rate_limiter.next()`.
\* With nothing to wait for, next() stamps last_operation_time and returns, and
\* _do_get starts with attempts = 0.
GetCall ==
    /\ fpc = "idle"
    /\ fetchResult /= "raised"
    /\ fetchesDone < MaxFetches
    /\ attempts' = 0
    /\ sends' = 0
    /\ waits' = <<>>
    /\ lastOutcome' = "none"
    /\ fetchResult' = "none"
    /\ IF time_to_next_op_seconds > 0
       THEN /\ fpc' = "limiter_sleep"
            /\ acquires' = 0
            /\ UNCHANGED last_operation_time
       ELSE /\ fpc' = "send"
            /\ acquires' = 1
            /\ last_operation_time' = now
    /\ UNCHANGED <<fetchesDone, now>>
    /\ UNCHANGED <<ingestVars, apiVars, limiterVars, pureVars, cycleVars>>

\* next()'s asyncio.sleep(time_to_next_op_seconds) is over: stamp and return.
LimiterWake ==
    /\ fpc = "limiter_sleep"
    /\ \E lag \in 0..MaxLag : now' = now + time_to_next_op_seconds + lag
    /\ last_operation_time' = now'
    /\ acquires' = acquires + 1
    /\ fpc' = "send"
    /\ UNCHANGED <<attempts, sends, waits, lastOutcome, fetchResult, fetchesDone>>
    /\ UNCHANGED <<ingestVars, apiVars, limiterVars, pureVars, cycleVars>>

\* Top of _do_get's loop: session.get sends one attempt.
Send ==
    /\ fpc = "send"
    /\ sends' = sends + 1
    /\ fpc' = "inflight"
    /\ UNCHANGED <<attempts, acquires, waits, lastOutcome, fetchResult, fetchesDone,
                   now, last_operation_time>>
    /\ UNCHANGED <<ingestVars, apiVars, limiterVars, pureVars, cycleVars>>

\* How _do_get leaves the attempt: "retry" (except TimeoutError), "return"
\* (orjson.loads parsed the body) or "raise" (anything else propagates).
Handle(outcome) ==
    CASE outcome = "timeout" -> "retry"
      [] outcome \in {"200_json", "500_json"} -> "return"
      [] OTHER -> "raise"

\* The attempt in flight ends.
Respond(outcome) ==
    /\ fpc = "inflight"
    /\ lastOutcome' = outcome
    /\ CASE Handle(outcome) = "retry" ->
              /\ attempts < MaxTimeouts
              /\ now' = now + timeout_seconds
              /\ attempts' = attempts + 1
              /\ waits' = Append(waits, retry_timeout_seconds(attempts'))
              /\ fpc' = "backoff"
              /\ UNCHANGED <<fetchResult, fetchesDone>>
         [] Handle(outcome) = "return" ->
              /\ \E d \in 0..MaxLag : now' = now + d
              /\ fetchResult' = "json"
              /\ fetchesDone' = fetchesDone + 1
              /\ fpc' = "idle"
              /\ UNCHANGED <<attempts, waits>>
         [] OTHER ->
              /\ \E d \in 0..MaxLag : now' = now + d
              /\ fetchResult' = "raised"
              /\ fetchesDone' = fetchesDone + 1
              /\ fpc' = "idle"
              /\ UNCHANGED <<attempts, waits>>
    /\ UNCHANGED <<acquires, sends, last_operation_time>>
    /\ UNCHANGED <<ingestVars, apiVars, limiterVars, pureVars, cycleVars>>

\* asyncio.sleep(retry_timeout_seconds) is over: back to the top of the loop.
BackoffWake ==
    /\ fpc = "backoff"
    /\ \E lag \in 0..MaxLag : now' = now + waits[Len(waits)] + lag
    /\ fpc' = "send"
    /\ UNCHANGED <<attempts, acquires, sends, waits, lastOutcome, fetchResult, fetchesDone,
                   last_operation_time>>
    /\ UNCHANGED <<ingestVars, apiVars, limiterVars, pureVars, cycleVars>>

FetchNext ==
    \/ GetCall
    \/ LimiterWake
    \/ Send
    \/ \E outcome \in Outcomes : Respond(outcome)
    \/ BackoffWake

----------------------------------------------------------------------------
(* api.py: conversion, sorting, the published state                         *)

_get_risk_profile_for_single(asset) ==
    IF is_stable(asset) THEN "low" ELSE "high"

\* Mutant of _get_risk_profile_for_pair: the profile by the number of stable assets.
risk_profile_by_stable_count(asset_0, asset_1) ==
    IF is_stable(asset_0) /\ is_stable(asset_1) THEN "low"
    ELSE IF is_stable(asset_0) \/ is_stable(asset_1) THEN "medium"
    ELSE "high"

_get_risk_profile_for_pair(asset_0, asset_1) ==
    IF is_stable(asset_0)
    THEN (IF is_stable(asset_1) THEN "low" ELSE "medium")
    ELSE "high"

AssetSingle(record) ==
    [kind |-> "single", network |-> record.network, protocol |-> record.protocol,
     symbol |-> record.assets[1].asset, symbol_wrapped |-> record.assets[1].wrapped_symbol,
     apy |-> record.apy,
     risk_profile |-> _get_risk_profile_for_single(record.assets[1].asset)]

AssetPair(record) ==
    [kind |-> "pair", network |-> record.network, protocol |-> record.protocol,
     symbol_0 |-> record.assets[1].asset, symbol_0_wrapped |-> record.assets[1].wrapped_symbol,
     symbol_1 |-> record.assets[2].asset, symbol_1_wrapped |-> record.assets[2].wrapped_symbol,
     apy |-> record.apy,
     risk_profile |-> _get_risk_profile_for_pair(record.assets[1].asset,
                                                 record.assets[2].asset)]

\* The loop of _update_ingest: the AssetSingle list.
RECURSIVE Singles(_)
Singles(records) ==
    IF records = <<>> THEN <<>>
    ELSE (IF Len(Head(records).assets) = 1 THEN <<AssetSingle(Head(records))>> ELSE <<>>)
         \o Singles(Tail(records))

\* Mutant of Pairs: a record of more than two assets is published as the pair of
\* its first two.
RECURSIVE PairsOfTwoOrMore(_)
PairsOfTwoOrMore(records) ==
    IF records = <<>> THEN <<>>
    ELSE (IF Len(Head(records).assets) >= 2 THEN <<AssetPair(Head(records))>> ELSE <<>>)
         \o PairsOfTwoOrMore(Tail(records))

\* The loop of _update_ingest: the AssetPair list.
RECURSIVE Pairs(_)
Pairs(records) ==
    IF records = <<>> THEN <<>>
    ELSE (IF Len(Head(records).assets) = 2 THEN <<AssetPair(Head(records))>> ELSE <<>>)
         \o Pairs(Tail(records))

\* A descending sort that puts x in front of the elements of equal apy.
RECURSIVE InsertBeforeEquals(_, _)
InsertBeforeEquals(x, sorted) ==
    IF sorted = <<>> THEN <<x>>
    ELSE IF Head(sorted).apy > x.apy
         THEN <<Head(sorted)>> \o InsertBeforeEquals(x, Tail(sorted))
         ELSE <<x>> \o sorted

\* list.sort(key=lambda a: a.apy, reverse=True): stable, descending. x goes behind
\* every element whose apy is not smaller.
RECURSIVE InsertDesc(_, _)
InsertDesc(x, sorted) ==
    IF sorted = <<>> THEN <<x>>
    ELSE IF Head(sorted).apy >= x.apy
         THEN <<Head(sorted)>> \o InsertDesc(x, Tail(sorted))
         ELSE <<x>> \o sorted

RECURSIVE SortFrom(_, _)
SortFrom(bases, sorted) ==
    IF bases = <<>> THEN sorted
    ELSE SortFrom(Tail(bases), InsertDesc(Head(bases), sorted))

sort_by_apy(bases) == SortFrom(bases, <<>>)

\* The `assets` property of AssetSingle / AssetPair.
BaseAssets(base) ==
    IF base.kind = "single" THEN {base.symbol} ELSE {base.symbol_0, base.symbol_1}

RECURSIVE _filter_bases(_, _, _)
_filter_bases(bases, asset, protocol) ==
    IF bases = <<>> THEN <<>>
    ELSE (IF /\ (asset = "None" \/ asset \in BaseAssets(Head(bases)))
             /\ (protocol = "None" \/ protocol = Head(bases).protocol)
          THEN <<Head(bases)>> ELSE <<>>)
         \o _filter_bases(Tail(bases), asset, protocol)

----------------------------------------------------------------------------
(* api.py: _init, _update_state, _update_state_loop and the read handlers   *)

\* Bound: the refresh cycles started.
MaxCycles == 3

Ok(json) == [status |-> "ok", json |-> json]

Failed == [status |-> "failed", json |-> <<>>]

\* What the five sources answer during one refresh cycle.
Scenarios ==
    { [c \in ConnectorSet |-> Ok(IF c = "zapper" THEN ZapperJson({}, <<>>, <<>>) ELSE <<>>)],
      [yearn |-> Ok(<<Vault(DAI, 500)>>),
       bancor |-> Ok(<<Pool(<<WBTC, BNT>>, 1, 1000)>>),
       dydx |-> Ok(<<>>),
       zapper |-> Ok(ZapperJson({"uniswap-v2"},
                                <<[tokens |-> <<Token(WBTC, 5), Token(WETH, 7)>>,
                                   yearlyROI |-> 700]>>,
                                <<Entry(USDC, 200)>>)),
       aave |-> Ok(<<>>)],
      [yearn |-> Ok(<<>>),
       bancor |-> Ok(<<Pool(<<WETH, USDC>>, 2, 1000), Pool(<<WBTC, WETH, USDC>>, 1, 1000)>>),
       dydx |-> Ok(<<Entry(WETH, 0), Entry(USDC, 500)>>),
       zapper |-> Ok(ZapperJson({}, <<>>, <<>>)),
       aave |-> Ok(<<Entry(USDC, 400)>>)],
      [yearn |-> Ok(<<Vault(DAI, 500)>>),
       bancor |-> Ok(<<>>),
       dydx |-> Failed,
       zapper |-> Ok(ZapperJson({}, <<>>, <<>>)),
       aave |-> Ok(<<Entry(USDC, 400)>>)],
      \* equal APYs: three singles at 0.05 behind a later 0.09, two pairs at
      \* 0.7304, and a pair at the singles' 0.05
      [yearn |-> Ok(<<Vault(DAI, 500)>>),
       bancor |-> Ok(<<Pool(<<WETH, USDC>>, 2, 1000), Pool(<<WBTC, DAI>>, 2, 1000)>>),
       dydx |-> Ok(<<Entry(USDC, 500), Entry(DAI, 900)>>),
       zapper |-> Ok(ZapperJson({"sushiswap"},
                                <<[tokens |-> <<Token(USDC, 3), Token(WETH, 4)>>,
                                   yearlyROI |-> 500]>>,
                                <<>>)),
       aave |-> Ok(<<Entry(WETH, 500)>>)],
      \* one single {BTC, 0.02} and one pair {ETH, BTC, 0.05}
      [yearn |-> Ok(<<>>),
       bancor |-> Ok(<<>>),
       dydx |-> Ok(<<>>),
       zapper |-> Ok(ZapperJson({"uniswap-v2"},
                                <<[tokens |-> <<Token(WETH, 7), Token(WBTC, 5)>>,
                                   yearlyROI |-> 500]>>,
                                <<>>)),
       aave |-> Ok(<<Entry(WBTC, 200)>>)] }

\* ingest() as a function of what the sources answer: gather raises as soon as
\* one connector raises, else the chained results are filtered.
ingest(upstream) ==
    IF \E c \in ConnectorSet : upstream[c].status = "failed"
    THEN [status |-> "raised", records |-> <<>>]
    ELSE [status |-> "returned",
          records |-> filter_records(
              chain(1, [c \in ConnectorSet |-> ConnectorRecords(c, upstream[c].json)]))]

NoLocals == [records |-> <<>>, assets |-> <<>>, asset_pairs |-> <<>>, combined |-> <<>>]

\* asgi_app.state before any assignment: the attributes do not exist (gen 0).
\* gen_x is history: the cycle whose _update_state assigned x.
Unset ==
    [assets |-> <<>>, asset_pairs |-> <<>>, combined |-> <<>>,
     gen_assets |-> 0, gen_pairs |-> 0, gen_combined |-> 0]

NoReader == [pc |-> "idle", assets_gen |-> 0, pairs_gen |-> 0, resp |-> <<>>]

UPDATE_STATE_INTERVAL_SECONDS == 3600

\* How long one ingest() takes, in seconds: a quick one, and one slower than the interval.
Durations == {1, 5000}

\* How late the event loop resumes the loop task once its sleep is due, in seconds.
SleepLags == {0, 1}

\* Only differences of times matter, so the origin of the clock is moved to each
\* call of _update_state. ended: when that call returned or raised; since_ended and
\* since_started: how long after the end and after the start of the previous call
\* it was made. -1: not yet, or no previous call.
NoTimer == [now |-> 0, ended |-> -1, wake |-> -1, since_ended |-> -1, since_started |-> -1]

\* A schedule at a fixed rate: the interval counted from the start of the refresh,
\* which is the origin of the clock.
SleepUntilFromStart == UPDATE_STATE_INTERVAL_SECONDS

\* `await asyncio.sleep(UPDATE_STATE_INTERVAL_SECONDS)`, called now.
SleepUntil == timer.now + UPDATE_STATE_INTERVAL_SECONDS

\* When _update_state is called: by _init at once, by the loop when its sleep is
\* over, `lag` late.
StartTime(o, lag) ==
    IF o = "init" THEN timer.now
    ELSE (IF timer.wake > timer.now THEN timer.wake ELSE timer.now) + lag

\* The timer once _update_state has been called at time t of the old origin.
Restarted(t) ==
    [now |-> 0, ended |-> -1, wake |-> -1,
     since_ended |-> IF timer.ended = -1 THEN -1 ELSE t - timer.ended,
     since_started |-> IF cycle = 0 THEN -1 ELSE t]

ApiIdle ==
    /\ appPc = "off"
    /\ loopPc = "none"
    /\ upc = "none"
    /\ owner = "none"
    /\ cycle = 0
    /\ locals = NoLocals
    /\ published = Unset
    /\ before = Unset
    /\ reader = NoReader
    /\ firstRead = "none"
    /\ running = 0
    /\ timer = NoTimer

\* The server has fired the startup event: _init is about to run.
ApiInit ==
    /\ appPc = "starting"
    /\ loopPc = "none"
    /\ upc = "none"
    /\ owner = "none"
    /\ cycle = 0
    /\ locals = NoLocals
    /\ published = Unset
    /\ before = Unset
    /\ reader = NoReader
    /\ firstRead = "none"
    /\ running = 0
    /\ timer = NoTimer

\* Mutant of Suspended: an await between the assignments of lines 216-218.
SuspendedBetweenAssignments == upc \in {"none", "ingest", "L217", "L218"}

\* Mutant of Suspended: handlers that run on worker threads (def, not async def).
HandlersOnThreads == TRUE

\* The positions at which the task running _update_state is suspended (or there is
\* none): its only await is `await _update_ingest()` on line 209, and lines 210-219
\* run without yielding to the event loop.
Suspended == upc \in {"none", "ingest"}

\* Mutant of Accepting: _init does not await the first _update_state.
AcceptingDuringStartup == appPc \in {"starting", "serving"}

\* Requests are handled once the startup handler _init has returned.
Accepting == appPc = "serving"

\* Mutant of UpdateStart: the published lists are emptied before the refresh.
UpdateStartClears(o) ==
    /\ cycle < MaxCycles
    /\ \/ o = "init" /\ appPc = "starting" /\ cycle = 0 /\ UNCHANGED loopPc
       \/ o = "loop" /\ loopPc = "sleep" /\ loopPc' = "update"
    /\ upc' = "ingest"
    /\ running' = running + 1
    /\ owner' = o
    /\ cycle' = cycle + 1
    /\ before' = published
    /\ locals' = NoLocals
    /\ \E lag \in SleepLags : timer' = Restarted(StartTime(o, lag))
    /\ published' = [published EXCEPT !.assets = <<>>, !.asset_pairs = <<>>,
                                      !.combined = <<>>]
    /\ UNCHANGED <<appPc, reader, firstRead>>
    /\ UNCHANGED <<fetchVars, ingestVars, limiterVars, pureVars, cycleVars>>

\* Mutant of UpdateStart: _init creates the loop task before it awaits _update_state.
UpdateStartLoopCreatedFirst(o) ==
    /\ cycle < MaxCycles
    /\ \/ o = "init" /\ appPc = "starting" /\ cycle = 0 /\ loopPc' = "sleep"
       \/ o = "loop" /\ loopPc = "sleep" /\ loopPc' = "update"
    /\ upc' = "ingest"
    /\ running' = running + 1
    /\ owner' = o
    /\ cycle' = cycle + 1
    /\ before' = published
    /\ locals' = NoLocals
    /\ \E lag \in SleepLags : timer' = Restarted(StartTime(o, lag))
    /\ UNCHANGED <<appPc, published, reader, firstRead>>
    /\ UNCHANGED <<fetchVars, ingestVars, limiterVars, pureVars, cycleVars>>

\* _update_state is called, by _init (line 203) or by the loop once its sleep is
\* over (line 226), and runs up to `await _update_ingest()`.
UpdateStart(o) ==
    /\ cycle < MaxCycles
    /\ \/ o = "init" /\ appPc = "starting" /\ cycle = 0 /\ UNCHANGED loopPc
       \/ o = "loop" /\ loopPc = "sleep" /\ loopPc' = "update"
    /\ upc' = "ingest"
    /\ running' = running + 1
    /\ owner' = o
    /\ cycle' = cycle + 1
    /\ before' = published
    /\ locals' = NoLocals
    /\ \E lag \in SleepLags : timer' = Restarted(StartTime(o, lag))
    /\ UNCHANGED <<appPc, published, reader, firstRead>>
    /\ UNCHANGED <<fetchVars, ingestVars, limiterVars, pureVars, cycleVars>>

\* ingest() completes: _update_ingest converts the records (line 209), or the
\* exception propagates out of _update_state.
IngestDone ==
    /\ upc = "ingest"
    /\ \E upstream \in Scenarios, duration \in Durations :
          LET r == ingest(upstream)
          IN  IF r.status = "raised"
              THEN /\ upc' = "raised"
                   /\ timer' = [timer EXCEPT !.now = timer.now + duration,
                                             !.ended = timer.now + duration]
                   /\ running' = running - 1
                   /\ UNCHANGED locals
              ELSE /\ upc' = "L210"
                   /\ timer' = [timer EXCEPT !.now = timer.now + duration]
                   /\ UNCHANGED running
                   /\ locals' = [records |-> r.records,
                                 assets |-> Singles(r.records),
                                 asset_pairs |-> Pairs(r.records),
                                 combined |-> <<>>]
    /\ UNCHANGED <<appPc, loopPc, owner, cycle, published, before, reader, firstRead>>
    /\ UNCHANGED <<fetchVars, ingestVars, limiterVars, pureVars, cycleVars>>

\* Mutant of SortLocals: combined = [*asset_pairs, *assets].
SortLocalsPairsFirst ==
    /\ upc = "L210"
    /\ locals' = [records |-> locals.records,
                  assets |-> sort_by_apy(locals.assets),
                  asset_pairs |-> sort_by_apy(locals.asset_pairs),
                  combined |-> sort_by_apy(locals.asset_pairs \o locals.assets)]
    /\ upc' = "L216"
    /\ UNCHANGED <<appPc, loopPc, owner, cycle, published, before, reader, firstRead, timer, running>>
    /\ UNCHANGED <<fetchVars, ingestVars, limiterVars, pureVars, cycleVars>>

\* Lines 210-214: combined is built from the unsorted lists, then the three sorts.
SortLocals ==
    /\ upc = "L210"
    /\ locals' = [records |-> locals.records,
                  assets |-> sort_by_apy(locals.assets),
                  asset_pairs |-> sort_by_apy(locals.asset_pairs),
                  combined |-> sort_by_apy(locals.assets \o locals.asset_pairs)]
    /\ upc' = "L216"
    /\ UNCHANGED <<appPc, loopPc, owner, cycle, published, before, reader, firstRead, timer, running>>
    /\ UNCHANGED <<fetchVars, ingestVars, limiterVars, pureVars, cycleVars>>

\* An exception in the conversion or the sorting (lines 209-214). No input is known
\* to raise there; the action is kept so that a failure at these points is covered.
UpdateRaises ==
    /\ upc \in {"L210", "L216"}
    /\ upc' = "raised"
    /\ running' = running - 1
    /\ timer' = [timer EXCEPT !.ended = timer.now]
    /\ UNCHANGED <<appPc, loopPc, owner, cycle, locals, published, before, reader, firstRead>>
    /\ UNCHANGED <<fetchVars, ingestVars, limiterVars, pureVars, cycleVars>>

\* Line 216.
SetAssets ==
    /\ upc = "L216"
    /\ published' = [published EXCEPT !.assets = locals.assets, !.gen_assets = cycle]
    /\ upc' = "L217"
    /\ UNCHANGED <<appPc, loopPc, owner, cycle, locals, before, reader, firstRead, timer, running>>
    /\ UNCHANGED <<fetchVars, ingestVars, limiterVars, pureVars, cycleVars>>

\* Line 217.
SetPairs ==
    /\ upc = "L217"
    /\ published' = [published EXCEPT !.asset_pairs = locals.asset_pairs, !.gen_pairs = cycle]
    /\ upc' = "L218"
    /\ UNCHANGED <<appPc, loopPc, owner, cycle, locals, before, reader, firstRead, timer, running>>
    /\ UNCHANGED <<fetchVars, ingestVars, limiterVars, pureVars, cycleVars>>

\* Lines 218-219.
SetCombined ==
    /\ upc = "L218"
    /\ published' = [published EXCEPT !.combined = locals.combined, !.gen_combined = cycle]
    /\ upc' = "returned"
    /\ running' = running - 1
    /\ timer' = [timer EXCEPT !.ended = timer.now]
    /\ UNCHANGED <<appPc, loopPc, owner, cycle, locals, before, reader, firstRead>>
    /\ UNCHANGED <<fetchVars, ingestVars, limiterVars, pureVars, cycleVars>>

\* _init after `await _update_state()`: create the loop task (line 204) and return;
\* the loop task runs to its asyncio.sleep.
InitReturns ==
    /\ owner = "init"
    /\ upc = "returned"
    /\ loopPc' = "sleep"
    /\ timer' = [timer EXCEPT !.wake = SleepUntil]
    /\ appPc' = "serving"
    /\ upc' = "none"
    /\ UNCHANGED <<owner, cycle, locals, published, before, reader, firstRead, running>>
    /\ UNCHANGED <<fetchVars, ingestVars, limiterVars, pureVars, cycleVars>>

\* _update_state raised inside _init: the startup handler fails, nothing is served.
InitRaises ==
    /\ owner = "init"
    /\ upc = "raised"
    /\ appPc' = "failed"
    /\ upc' = "none"
    /\ UNCHANGED <<loopPc, owner, cycle, locals, published, before, reader, firstRead, timer, running>>
    /\ UNCHANGED <<fetchVars, ingestVars, limiterVars, pureVars, cycleVars>>

\* The loop after `await _update_state()` returned: next iteration, sleep again.
LoopReturns ==
    /\ owner = "loop"
    /\ upc = "returned"
    /\ loopPc' = "sleep"
    /\ timer' = [timer EXCEPT !.wake = SleepUntil]
    /\ upc' = "none"
    /\ UNCHANGED <<appPc, owner, cycle, locals, published, before, reader, firstRead, running>>
    /\ UNCHANGED <<fetchVars, ingestVars, limiterVars, pureVars, cycleVars>>

\* _update_state raised inside the loop: `while True` has no try, the exception
\* leaves _update_state_loop and its task ends.
LoopRaises ==
    /\ owner = "loop"
    /\ upc = "raised"
    /\ loopPc' = "dead"
    /\ upc' = "none"
    /\ UNCHANGED <<appPc, owner, cycle, locals, published, before, reader, firstRead, timer, running>>
    /\ UNCHANGED <<fetchVars, ingestVars, limiterVars, pureVars, cycleVars>>

\* What a read finds under the attribute it reads.
Found(gen, list) ==
    IF gen = 0 THEN "unset" ELSE IF list = <<>> THEN "empty" ELSE "nonempty"

FirstRead(gen, list) == IF firstRead = "none" THEN Found(gen, list) ELSE firstRead

QueryAssets == {"None", "Bitcoin"}

QueryProtocols == {"None", "bancor"}

\* GET /v1/apy/assets: the client's first query.
get_assets ==
    /\ Accepting
    /\ Suspended
    /\ reader.pc = "idle"
    /\ \E asset \in QueryAssets, protocol \in QueryProtocols :
          reader' = [pc |-> "got_assets", assets_gen |-> published.gen_assets,
                     pairs_gen |-> 0,
                     resp |-> _filter_bases(published.assets, asset, protocol)]
    /\ firstRead' = FirstRead(published.gen_assets, published.assets)
    /\ UNCHANGED <<appPc, loopPc, upc, owner, cycle, locals, published, before, timer, running>>
    /\ UNCHANGED <<fetchVars, ingestVars, limiterVars, pureVars, cycleVars>>

\* GET /v1/apy/pairs: the same client's second query.
get_asset_pairs ==
    /\ Accepting
    /\ Suspended
    /\ reader.pc = "got_assets"
    /\ \E asset \in QueryAssets, protocol \in QueryProtocols :
          reader' = [reader EXCEPT !.pc = "got_pairs", !.pairs_gen = published.gen_pairs,
                     !.resp = _filter_bases(published.asset_pairs, asset, protocol)]
    /\ firstRead' = FirstRead(published.gen_pairs, published.asset_pairs)
    /\ UNCHANGED <<appPc, loopPc, upc, owner, cycle, locals, published, before, timer, running>>
    /\ UNCHANGED <<fetchVars, ingestVars, limiterVars, pureVars, cycleVars>>

\* GET /v1/apy/all, after which the client starts over.
get_all ==
    /\ Accepting
    /\ Suspended
    /\ reader.pc = "got_pairs"
    /\ \E asset \in QueryAssets, protocol \in QueryProtocols :
          reader' = [pc |-> "idle", assets_gen |-> 0, pairs_gen |-> 0,
                     resp |-> _filter_bases(published.combined, asset, protocol)]
    /\ firstRead' = FirstRead(published.gen_combined, published.combined)
    /\ UNCHANGED <<appPc, loopPc, upc, owner, cycle, locals, published, before, timer, running>>
    /\ UNCHANGED <<fetchVars, ingestVars, limiterVars, pureVars, cycleVars>>

ApiNext ==
    \/ \E o \in {"init", "loop"} : UpdateStart(o)
    \/ IngestDone
    \/ SortLocals
    \/ UpdateRaises
    \/ SetAssets
    \/ SetPairs
    \/ SetCombined
    \/ InitReturns
    \/ InitRaises
    \/ LoopReturns
    \/ LoopRaises
    \/ get_assets
    \/ get_asset_pairs
    \/ get_all

----------------------------------------------------------------------------
(* utils.py: one ContinuousRateLimiter, called in turn by one caller        *)
(*                                                                          *)
(* Units.  A rate is an integer number of operations per hour, so that the  *)
(* sum make forms of per-second, per-minute and per-hour rates is exact; a  *)
(* time is an integer number of milliseconds; jitter_percentage is in       *)
(* hundredths (50 is Python's 0.5).                                         *)

\* Python's Optional: None is the empty tuple, a value v is <<v>>.
None == <<>>
Some(v) == <<v>>

MsPerHour == 3600000

\* ContinuousRateLimiter.__init__: 1.0 / 0.0 raises ZeroDivisionError; any other
\* rate, negative ones included, gives an object.
ContinuousRateLimiter(operations_per_hour, jitter_seconds) ==
    IF operations_per_hour = 0 THEN [raised |-> "ZeroDivisionError"]
    ELSE [raised |-> "None",
          max_operations_per_hour |-> operations_per_hour,
          jitter_seconds |-> jitter_seconds,
          last_operation_time |-> -1,
          sleep_per_operation_seconds |-> MsPerHour \div operations_per_hour]

\* ContinuousRateLimiter.make: `operations_per_second or 0`, plus the per-minute
\* and per-hour rates when given; ValueError if and only if the sum == 0.
make(cfg) ==
    LET per_second == IF cfg.operations_per_second = None THEN 0
                      ELSE 3600 * cfg.operations_per_second[1]
        per_minute == IF cfg.operations_per_minute = None THEN 0
                      ELSE 60 * cfg.operations_per_minute[1]
        per_hour   == IF cfg.operations_per_hour = None THEN 0
                      ELSE cfg.operations_per_hour[1]
        total      == per_second + per_minute + per_hour
    IN  IF total = 0 THEN [raised |-> "ValueError"]
        ELSE ContinuousRateLimiter(
                 total,
                 IF cfg.jitter_percentage = None THEN None
                 ELSE Some((cfg.jitter_percentage[1] * 36000) \div total))

Config(per_hour, per_minute, per_second, jitter) ==
    [operations_per_hour |-> per_hour, operations_per_minute |-> per_minute,
     operations_per_second |-> per_second, jitter_percentage |-> jitter]

\* Bound of the limiter model: the calls of next() in one behaviour.
MaxAcquires == 3

\* The limiters driven: 1/s as in ingest.py, 2/s, and 30/min, each without
\* jitter, with jitter 0 and with jitter 0.5.
LimiterConfigs ==
    { Config(None, None, Some(1), j) : j \in {None, Some(0), Some(50)} }
    \cup { Config(None, None, Some(2), j) : j \in {None, Some(0), Some(50)} }
    \cup { Config(None, Some(30), None, j) : j \in {None, Some(0), Some(50)} }

\* How long after the previous return the caller calls next() again.
Gaps == {0, 400, 2500}

\* random.random() * jitter_seconds, random() in [0, 1): the least and (to the
\* millisecond) the greatest value.
JitterDraws(lim) ==
    IF lim.jitter_seconds = None \/ lim.jitter_seconds = Some(0) THEN {0}
    ELSE {0, lim.jitter_seconds[1] - 1}

\* The jitter taken off the wait.
time_to_next_op_jitter_shortens(lim, t, draw) ==
    IF lim.last_operation_time /= -1
    THEN lim.sleep_per_operation_seconds - (t - lim.last_operation_time)
         - (IF lim.jitter_seconds /= None THEN draw ELSE 0)
    ELSE 0

\* next(): time_to_next_op_seconds when utcnow() is t and the jitter drawn is `draw`.
time_to_next_op(lim, t, draw) ==
    IF lim.last_operation_time /= -1
    THEN lim.sleep_per_operation_seconds - (t - lim.last_operation_time)
         + (IF lim.jitter_seconds /= None THEN draw ELSE 0)
    ELSE 0

LimiterInit ==
    /\ limiter \in {make(cfg) : cfg \in LimiterConfigs}
    /\ nextPc = "idle"
    /\ nextWait = 0
    /\ clock = 0
    /\ returnTimes = <<>>

\* The caller calls next() `gap` after the previous call returned. Either the wait
\* is positive and the coroutine suspends in asyncio.sleep, or next() stamps
\* last_operation_time and returns.
NextCall(gap, draw) ==
    /\ nextPc = "idle"
    /\ Len(returnTimes) < MaxAcquires
    /\ clock' = clock + gap
    /\ LET wait == time_to_next_op(limiter, clock', draw)
       IN  IF wait > 0
           THEN /\ nextPc' = "sleep"
                /\ nextWait' = wait
                /\ UNCHANGED <<limiter, returnTimes>>
           ELSE /\ limiter' = [limiter EXCEPT !.last_operation_time = clock']
                /\ returnTimes' = Append(returnTimes, clock')
                /\ UNCHANGED <<nextPc, nextWait>>
    /\ UNCHANGED <<fetchVars, ingestVars, apiVars, pureVars, cycleVars>>

\* asyncio.sleep(wait) is over, `lag` late; next() stamps last_operation_time and returns.
NextWake(lag) ==
    /\ nextPc = "sleep"
    /\ clock' = clock + nextWait + lag
    /\ limiter' = [limiter EXCEPT !.last_operation_time = clock']
    /\ returnTimes' = Append(returnTimes, clock')
    /\ nextPc' = "idle"
    /\ nextWait' = 0
    /\ UNCHANGED <<fetchVars, ingestVars, apiVars, pureVars, cycleVars>>

LimiterNext ==
    \/ \E gap \in Gaps : \E draw \in JitterDraws(limiter) : NextCall(gap, draw)
    \/ \E lag \in 0..MaxLag : NextWake(lag)

LimiterIdle ==
    /\ limiter = <<>>
    /\ nextPc = "idle"
    /\ nextWait = 0
    /\ clock = 0
    /\ returnTimes = <<>>

----------------------------------------------------------------------------
(* One call of a function on an argument drawn from a bounded set           *)

MaxRecords == 5

\* The records _filter_records is given: one at the floor, one just below it, one
\* with a disallowed wrapped symbol and a high APY, one plainly acceptable.
AtFloor == BasicRecord("yearn", <<wrap(DAI)>>, 100)
BelowFloor == BasicRecord("yearn", <<wrap(DAI)>>, 99)
Disallowed == BasicRecord("bancor", <<wrap(USDC), wrap(renBTC)>>, 90000)
Plain == BasicRecord("dYdX", <<wrap(USDC)>>, 500)

FilterCandidates == {AtFloor, BelowFloor, Disallowed, Plain}

\* The RecordLists of up to MaxRecords records, repetitions included.
FilterInputs == UNION {[1..k -> FilterCandidates] : k \in 0..MaxRecords}

\* The keyword arguments make is called with: each rate absent, negative, zero
\* or positive, with and without jitter.
MakeInputs ==
    { Config(h, m, sec, j) :
        h \in {None, Some(-3600), Some(0), Some(60), Some(3600)},
        m \in {None, Some(-60), Some(0), Some(60)},
        sec \in {None, Some(-1), Some(0), Some(1)},
        j \in {None, Some(50)} }

\* Bound on the pieces a symbol given to Asset.map is made of.
MaxPieces == 3

\* The pieces: the five base symbols, and fragments that complete to one across
\* a boundary ("BT" + "C", "USD" + "C") or to none.
Pieces ==
    { <<"W">>, <<"C">>, <<"B", "T">>, <<"U", "S", "D">>,
      <<"B", "T", "C">>, <<"E", "T", "H">>, <<"D", "A", "I">>,
      <<"U", "S", "D", "C">>, <<"U", "S", "D", "T">> }

RECURSIVE Join(_)
Join(pieces) == IF pieces = <<>> THEN <<>> ELSE Head(pieces) \o Join(Tail(pieces))

SymbolInputs == {Join(pieces) : pieces \in UNION {[1..k -> Pieces] : k \in 0..MaxPieces}}

\* The records the two branches of _update_ingest's loop are given: one per asset
\* and one per ordered pair of assets.
AssetNames == {AssetOrder[i] : i \in 1..Len(AssetOrder)}

SingleInputs == {BasicRecord("yearn", <<wrap(AssetValue(a))>>, 500) : a \in AssetNames}

PairInputs ==
    {BasicRecord("bancor", <<wrap(AssetValue(a)), wrap(AssetValue(b))>>, 500) :
        a \in AssetNames, b \in AssetNames}

PureIdle ==
    /\ fn = "none"
    /\ arg = <<>>
    /\ ret = <<>>
    /\ called = FALSE

PureInit ==
    /\ called = FALSE
    /\ ret = <<>>
    /\ \/ /\ fn = "_filter_records"
          /\ arg \in FilterInputs
       \/ /\ fn = "make"
          /\ arg \in MakeInputs
       \/ /\ fn = "Asset.map"
          /\ arg \in SymbolInputs
       \/ /\ fn = "AssetSingle"
          /\ arg \in SingleInputs
       \/ /\ fn = "AssetPair"
          /\ arg \in PairInputs

\* _filter_records(records)
FilterCall ==
    /\ fn = "_filter_records"
    /\ ~called
    /\ ret' = filter_records(arg)
    /\ called' = TRUE
    /\ UNCHANGED <<fn, arg>>
    /\ UNCHANGED <<fetchVars, ingestVars, apiVars, limiterVars, cycleVars>>

\* ContinuousRateLimiter.make(name, **arg)
MakeCall ==
    /\ fn = "make"
    /\ ~called
    /\ ret' = make(arg)
    /\ called' = TRUE
    /\ UNCHANGED <<fn, arg>>
    /\ UNCHANGED <<fetchVars, ingestVars, apiVars, limiterVars, cycleVars>>

\* Asset.map(arg)
MapCall ==
    /\ fn = "Asset.map"
    /\ ~called
    /\ ret' = Asset_map(arg)
    /\ called' = TRUE
    /\ UNCHANGED <<fn, arg>>
    /\ UNCHANGED <<fetchVars, ingestVars, apiVars, limiterVars, cycleVars>>

\* The branch len(record.assets) == 1 of _update_ingest: AssetSingle(...) of arg.
SingleCall ==
    /\ fn = "AssetSingle"
    /\ ~called
    /\ ret' = AssetSingle(arg)
    /\ called' = TRUE
    /\ UNCHANGED <<fn, arg>>
    /\ UNCHANGED <<fetchVars, ingestVars, apiVars, limiterVars, cycleVars>>

\* The branch len(record.assets) == 2 of _update_ingest: AssetPair(...) of arg.
PairCall ==
    /\ fn = "AssetPair"
    /\ ~called
    /\ ret' = AssetPair(arg)
    /\ called' = TRUE
    /\ UNCHANGED <<fn, arg>>
    /\ UNCHANGED <<fetchVars, ingestVars, apiVars, limiterVars, cycleVars>>

PureNext ==
    \/ FilterCall
    \/ MakeCall
    \/ MapCall
    \/ SingleCall
    \/ PairCall

----------------------------------------------------------------------------
(* One refresh cycle, request by request: ingest.py ingest and the          *)
(* connectors' `_get`, utils.py rate_limited, api.py _update_state          *)

\* Bound: the requests _ingest_zapper makes (the code makes up to 7: the supported
\* list, five pool-stats, one lending-stats).
MaxZapperRequests == 3

\* _ingest_zapper always asks for the supported list and for compound's lending stats.
MinZapperRequests == 2

\* The requests a connector makes before it returns: at least, at most.
MinRequests(c) == IF c = "zapper" THEN MinZapperRequests ELSE 1
MaxRequests(c) == IF c = "zapper" THEN MaxZapperRequests ELSE 1

\* The `name` each connector gives rate_limited (aave's is "dydx").
LimiterName(c) == IF c = "aave" THEN "dydx" ELSE c

\* A registry of limiters by name: the object of that name, whoever asks.
LimiterByName(c) ==
    CASE LimiterName(c) = "yearn"  -> 1
      [] LimiterName(c) = "bancor" -> 2
      [] LimiterName(c) = "dydx"   -> 3
      [] LimiterName(c) = "zapper" -> 4

\* rate_limited(...)(func) inside the body of a connector: ContinuousRateLimiter.make
\* constructs an object each time the connector is invoked. The object is
\* identified by the invocation that built it (its place in ingests_tasks).
NewLimiter(c) == CHOOSE i \in 1..Len(Connectors) : Connectors[i] = c

\* `async with aiohttp.ClientSession() as session`: the one object ingest() passes
\* to every connector.
SessionPassed(c) == 1

CycleIdle ==
    /\ conn = <<>>
    /\ made = 0
    /\ future = "none"
    /\ closed = FALSE
    /\ cyclePc = "none"

\* _update_state awaits _update_ingest, which awaits ingest(), which awaits gather:
\* the five coroutines are tasks that have not run yet.
CycleInit ==
    /\ conn = [c \in ConnectorSet |->
                 [pc |-> "created", answered |-> 0, limiter |-> 0, session |-> SessionPassed(c)]]
    /\ made = 0
    /\ future = "pending"
    /\ closed = FALSE
    /\ cyclePc = "ingest"

\* gather's future once connector c has returned / has raised.
FutureAfterReturn(c) ==
    IF future = "pending" /\ \A d \in ConnectorSet \ {c} : conn[d].pc = "returned"
    THEN "result" ELSE future

\* Mutant of FutureAfterRaise: a connector that raised leaves gather waiting.
FuturePendingAfterRaise == future

FutureAfterRaise == IF future = "pending" THEN "exception" ELSE future

\* The task of connector c runs for the first time: the decorator builds its
\* limiter, the first _get passes next() without a wait (last_operation_time is
\* None) and the request is sent on the session.
ConnStart(c) ==
    /\ conn[c].pc = "created"
    /\ made' = made + 1
    /\ conn' = [conn EXCEPT ![c].pc = "get", ![c].limiter = NewLimiter(c)]
    /\ UNCHANGED <<future, closed, cyclePc>>
    /\ UNCHANGED <<fetchVars, ingestVars, apiVars, limiterVars, pureVars>>

\* The request is answered with JSON. The connector either returns its records,
\* or calls _get again: next() suspends in its sleep, or (the answer took longer
\* than the limiter's period) passes at once and the next request is sent.
GetAnswered(c) ==
    /\ conn[c].pc = "get"
    /\ ~closed
    /\ \E then \in {"returned", "acquire", "get"} :
          /\ then = "returned" => conn[c].answered + 1 >= MinRequests(c)
          /\ then /= "returned" => conn[c].answered + 1 < MaxRequests(c)
          /\ conn' = [conn EXCEPT ![c].pc = then, ![c].answered = conn[c].answered + 1]
          /\ future' = IF then = "returned" THEN FutureAfterReturn(c) ELSE future
    /\ UNCHANGED <<made, closed, cyclePc>>
    /\ UNCHANGED <<fetchVars, ingestVars, apiVars, limiterVars, pureVars>>

\* The request ends with an error that is not a timeout (or the session was closed
\* under it): it leaves _do_get, _get and the connector, whose task has failed.
GetFails(c) ==
    /\ conn[c].pc = "get"
    /\ conn' = [conn EXCEPT ![c].pc = "failed"]
    /\ future' = FutureAfterRaise
    /\ UNCHANGED <<made, closed, cyclePc>>
    /\ UNCHANGED <<fetchVars, ingestVars, apiVars, limiterVars, pureVars>>

\* The request times out: _do_get sleeps retry_timeout_seconds.
GetTimesOut(c) ==
    /\ conn[c].pc = "get"
    /\ ~closed
    /\ conn' = [conn EXCEPT ![c].pc = "backoff"]
    /\ UNCHANGED <<made, future, closed, cyclePc>>
    /\ UNCHANGED <<fetchVars, ingestVars, apiVars, limiterVars, pureVars>>

\* The backoff sleep is over: _do_get's loop sends the request again.
BackoffOver(c) ==
    /\ conn[c].pc = "backoff"
    /\ conn' = [conn EXCEPT ![c].pc = "get"]
    /\ UNCHANGED <<made, future, closed, cyclePc>>
    /\ UNCHANGED <<fetchVars, ingestVars, apiVars, limiterVars, pureVars>>

\* The sleep inside next() is over: next() returns and the request is sent.
AcquireOver(c) ==
    /\ conn[c].pc = "acquire"
    /\ conn' = [conn EXCEPT ![c].pc = "get"]
    /\ UNCHANGED <<made, future, closed, cyclePc>>
    /\ UNCHANGED <<fetchVars, ingestVars, apiVars, limiterVars, pureVars>>

\* gather has its result: ingest() filters, leaves `async with` and returns;
\* _update_ingest converts, _update_state sorts and assigns (no await on the way).
CycleInstalls ==
    /\ cyclePc = "ingest"
    /\ future = "result"
    /\ cyclePc' = "installed"
    /\ closed' = TRUE
    /\ UNCHANGED <<conn, made, future>>
    /\ UNCHANGED <<fetchVars, ingestVars, apiVars, limiterVars, pureVars>>

\* gather has an exception: ingest() leaves `async with` and raises, and so do
\* _update_ingest and _update_state.
CycleFails ==
    /\ cyclePc = "ingest"
    /\ future = "exception"
    /\ cyclePc' = "failed"
    /\ closed' = TRUE
    /\ UNCHANGED <<conn, made, future>>
    /\ UNCHANGED <<fetchVars, ingestVars, apiVars, limiterVars, pureVars>>

CycleNext ==
    \/ \E c \in ConnectorSet : ConnStart(c)
    \/ \E c \in ConnectorSet : GetAnswered(c)
    \/ \E c \in ConnectorSet : GetFails(c)
    \/ \E c \in ConnectorSet : GetTimesOut(c)
    \/ \E c \in ConnectorSet : BackoffOver(c)
    \/ \E c \in ConnectorSet : AcquireOver(c)
    \/ CycleInstalls
    \/ CycleFails

\* What the event loop and aiohttp guarantee of one connector's task: a created
\* task is run, a sleep (in next() or between retries) ends, and a request that is
\* sent ends within timeout_seconds, with an answer, an error or a timeout.
ConnProgress(c) ==
    \/ ConnStart(c)
    \/ AcquireOver(c)
    \/ BackoffOver(c)
    \/ GetAnswered(c)
    \/ GetFails(c)
    \/ GetTimesOut(c)

\* ... and of the task that awaits gather: it is resumed once the future is done.
CycleProgress == CycleInstalls \/ CycleFails

CycleFairness ==
    /\ \A c \in ConnectorSet : WF_vars(ConnProgress(c))
    /\ WF_vars(CycleProgress)

----------------------------------------------------------------------------
(* The claims                                                               *)

FailedConnectors == {c \in ConnectorSet : task[c] = "failed"}

\* C1 (as claimed; ingest raises instead): when ingest() has completed with exactly
\* one connector failed and all the others done, it has returned, and its result
\* is the filtered concatenation of the others' outputs.
C1_FailureIsIsolated ==
    ( /\ ingestPc \in {"returned", "raised"}
      /\ Cardinality(FailedConnectors) = 1
      /\ \A c \in ConnectorSet \ FailedConnectors : task[c] = "done" )
    => /\ ingestPc = "returned"
       /\ ingestResult = filter_records(chain(1, out))

\* C2 (as claimed; the loop task ends instead): a refresh cycle that raises does
\* not terminate the refresh loop.
C2_LoopSurvivesFailure == loopPc /= "dead"

\* C3: when a refresh cycle has failed (ingest raised, or the conversion or the
\* sorting raised) the three published lists are what they were when the cycle
\* started.
C3_FailedCycleKeepsSnapshot == upc = "raised" => published = before

C3_Witness ==
    /\ upc = "raised"
    /\ owner = "loop"
    /\ before.gen_combined >= 1
    /\ before.combined /= <<>>
    /\ locals = NoLocals

\* C4: wherever a read handler can run (the refresh task is at a suspension point)
\* the three published lists were assigned by the same refresh cycle.
C4_PublishedFromOneCycle ==
    Suspended => /\ published.gen_assets = published.gen_pairs
                 /\ published.gen_pairs = published.gen_combined

C4_Witness ==
    /\ Accepting
    /\ upc = "ingest"
    /\ reader.pc = "got_assets"
    /\ published.gen_combined >= 2
    /\ published.assets /= <<>>
    /\ published.asset_pairs /= <<>>

InstalledOnce ==
    /\ published.gen_assets >= 1
    /\ published.gen_pairs >= 1
    /\ published.gen_combined >= 1

C7_AcquireBeforeEveryAttempt == fpc = "inflight" => acquires = sends

\* C7 (amended): a fetch calls acquire exactly once, before its first attempt; a
\* retry is preceded by the backoff sleep and by no further acquire.
C7_OneAcquirePerFetch ==
    /\ acquires <= 1
    /\ sends >= 1 => acquires = 1
    /\ fpc = "inflight" => sends = attempts + 1
    /\ fpc = "inflight" => sends = Len(waits) + 1

C7_Witness ==
    /\ fpc = "inflight"
    /\ sends = 3
    /\ acquires = 1

\* The waits 2, 4, 8, 16, 32, 32, ...
ExpectedWait(k) ==
    CASE k = 1 -> 2
      [] k = 2 -> 4
      [] k = 3 -> 8
      [] k = 4 -> 16
      [] OTHER -> 32

\* C8: a timeout never ends the fetch (it is followed by a wait and another
\* attempt, never by a failure), and the wait after the k-th timeout is
\* 2^min(k,5): 2, 4, 8, 16, 32, 32, ..., at most 32.
C8_BackoffSchedule ==
    /\ Len(waits) = attempts
    /\ \A k \in 1..Len(waits) : waits[k] = ExpectedWait(k) /\ waits[k] <= 32
    /\ lastOutcome = "timeout" =>
          /\ fetchResult = "none"
          /\ fpc \in {"backoff", "send", "inflight"}

C8_Witness ==
    /\ Len(waits) >= 6
    /\ fetchResult = "json"

\* C9 (as claimed; an error status with a JSON body is returned): a fetch whose
\* attempt met a connection error, an HTTP error status or a malformed body has
\* ended with the failure raised to the connector, without another attempt.
C9_ErrorsPropagate ==
    lastOutcome \in {"conn_error", "500_json", "500_garbage", "200_garbage"} =>
        /\ fpc = "idle"
        /\ fetchResult = "raised"

\* C10 (as claimed; bancor passes pools of three resolvable tokens): every record
\* ingest() returns has exactly 1 or exactly 2 assets.
C10_OneOrTwoAssets ==
    \A i \in 1..Len(ingestResult) : Len(ingestResult[i].assets) \in {1, 2}

\* C11: whatever the order in which the connector tasks finished, what ingest()
\* returns is the filter of yearn's, bancor's, dydx's, zapper's and aave's lists
\* concatenated in that (declaration) order. The lists are spelled out here.
C11_DeclarationOrder ==
    ingestPc = "returned" =>
        ingestResult = filter_records(out["yearn"] \o out["bancor"] \o out["dydx"]
                                      \o out["zapper"] \o out["aave"])

\* The tasks finished in the reverse of the declaration order, aave first and yearn
\* last, and yet yearn's record leads the output and aave's closes it.
C11_Witness ==
    /\ ingestPc = "returned"
    /\ completed = <<"aave", "zapper", "dydx", "bancor", "yearn">>
    /\ Len(ingestResult) >= 3
    /\ ingestResult[1].protocol = "yearn"
    /\ ingestResult[Len(ingestResult)].protocol = "aave"

\* C12: _filter_records returns exactly the records of its input, in input order
\* and as often as they occur, whose APY is at least 0.01 (100 basis points) and
\* none of whose assets has a wrapped symbol of the disallow-list.
C12_Acceptable(record) ==
    /\ record.apy >= 100
    /\ \A i \in DOMAIN record.assets : record.assets[i].wrapped_symbol \notin BAD_SYMBOLS

C12_FilterIsSelection ==
    (fn = "_filter_records" /\ called) => ret = SelectSeq(arg, C12_Acceptable)

\* A disallowed symbol with a high APY and a record just below the floor are
\* dropped; the record at the floor and both copies of one record are kept.
C12_Witness ==
    /\ fn = "_filter_records"
    /\ called
    /\ arg = <<Disallowed, Plain, BelowFloor, AtFloor, Plain>>
    /\ ret = <<Plain, AtFloor, Plain>>

\* C13: on a limiter of rate R operations per hour (N = R / 3600 per second),
\* consecutive returns of next() are at least 1/N seconds (3600000 / R ms) apart,
\* so M returns span at least (M - 1)/N seconds; and a wait under way, jitter
\* included, never ends before that distance from the previous return.
C13_AcquiresSpaced ==
    LET R == limiter.max_operations_per_hour
        M == Len(returnTimes)
    IN  /\ \A k \in 1..(M - 1) : (returnTimes[k + 1] - returnTimes[k]) * R >= 3600000
        /\ M >= 1 => (returnTimes[M] - returnTimes[1]) * R >= (M - 1) * 3600000
        /\ nextPc = "sleep" =>
               (clock + nextWait - limiter.last_operation_time) * R >= 3600000

\* Three acquires on the 1/s limiter with jitter 0.5: the second was called at
\* once and returned 1.499 s after the first (jitter 0.499 s added), the third
\* was called 0.4 s later and returned 1 s after the second.
C13_Witness ==
    /\ limiter.max_operations_per_hour = 3600
    /\ limiter.jitter_seconds = <<500>>
    /\ Len(returnTimes) = 3
    /\ returnTimes[2] - returnTimes[1] = 1499
    /\ returnTimes[3] - returnTimes[2] = 1000

\* C14 (as claimed; make rejects a sum that is zero and nothing else): whenever the
\* per-second, per-minute and per-hour rates given to make sum to zero or less,
\* make raises its configuration error and returns no limiter.
C14_Given(optional) == IF optional = <<>> THEN 0 ELSE optional[1]

C14_NonPositiveRateRejected ==
    (/\ fn = "make"
     /\ called
     /\ 3600 * C14_Given(arg.operations_per_second)
          + 60 * C14_Given(arg.operations_per_minute)
          + C14_Given(arg.operations_per_hour) <= 0)
    => ret.raised = "ValueError"

\* C15: Asset.map returns None exactly when none of BTC, ETH, DAI, USDC, USDT
\* occurs in the symbol; otherwise it returns a member whose base symbol occurs
\* and that no other such member precedes in the enumeration (so the only one,
\* when only one occurs).
C15_Rank(a) ==
    CASE a = "Bitcoin" -> 1 [] a = "Ethereum" -> 2 [] a = "DAI" -> 3
      [] a = "USD_Coin" -> 4 [] a = "USD_Token" -> 5

C15_Base(a) ==
    CASE a = "Bitcoin" -> <<"B", "T", "C">> [] a = "Ethereum" -> <<"E", "T", "H">>
      [] a = "DAI" -> <<"D", "A", "I">> [] a = "USD_Coin" -> <<"U", "S", "D", "C">>
      [] a = "USD_Token" -> <<"U", "S", "D", "T">>

C15_Occurring ==
    {a \in {"Bitcoin", "Ethereum", "DAI", "USD_Coin", "USD_Token"} :
        \E i \in 1..Len(arg) : \E j \in i..Len(arg) : SubSeq(arg, i, j) = C15_Base(a)}

C15_FirstInEnumOrder ==
    (fn = "Asset.map" /\ called) =>
        /\ (ret = "None") <=> (C15_Occurring = {})
        /\ C15_Occurring /= {} =>
              /\ ret \in C15_Occurring
              /\ \A a \in C15_Occurring : C15_Rank(ret) <= C15_Rank(a)
        /\ Cardinality(C15_Occurring) = 1 => C15_Occurring = {ret}

\* "USDTETHBTC": three base symbols occur, BTC rightmost, and Bitcoin is returned.
C15_Witness ==
    /\ fn = "Asset.map"
    /\ called
    /\ arg = <<"U", "S", "D", "T", "E", "T", "H", "B", "T", "C">>
    /\ ret = "Bitcoin"

\* `sorted` is in non-increasing order of apy.
NonIncreasing(sorted) ==
    \A i \in 1..(Len(sorted) - 1) : sorted[i].apy >= sorted[i + 1].apy

\* For every apy, the elements of that apy are the same and in the same order in
\* both lists (so `sorted` is a rearrangement of `original` that keeps ties).
TiesKeepOrder(sorted, original) ==
    /\ Len(sorted) = Len(original)
    /\ \A i \in 1..Len(original) :
          SelectSeq(sorted, LAMBDA b : b.apy = original[i].apy)
              = SelectSeq(original, LAMBDA b : b.apy = original[i].apy)

\* C16: when a refresh has succeeded, the published single-asset list and the
\* published pair list are each in non-increasing order of APY, and each keeps
\* records of equal APY in the order they have in what ingest() returned.
C16_SortedStable ==
    upc = "returned" =>
        /\ NonIncreasing(published.assets)
        /\ NonIncreasing(published.asset_pairs)
        /\ TiesKeepOrder(published.assets, Singles(locals.records))
        /\ TiesKeepOrder(published.asset_pairs, Pairs(locals.records))

\* ingest() returned the singles 0.05 (yearn), 0.05 (dYdX), 0.09 (dYdX), 0.05
\* (aave): published are 0.09 and then the three ties in that order.
C16_Witness ==
    /\ upc = "returned"
    /\ Len(published.assets) = 4
    /\ published.assets[1].apy = 900
    /\ published.assets[2].protocol = "yearn"
    /\ published.assets[3].protocol = "dYdX"
    /\ published.assets[4].protocol = "aave"
    /\ published.assets[2].apy = published.assets[4].apy
    /\ Len(published.asset_pairs) = 3
    /\ published.asset_pairs[1].apy = published.asset_pairs[2].apy

\* C17: every _update_state the loop calls is called at least 3600 seconds after
\* the previous _update_state (that of _init included) returned or raised.
C17_IntervalFromCompletion ==
    (owner = "loop" /\ upc /= "none") => timer.since_ended >= 3600

\* The startup refresh took 5000 s: the loop's first refresh starts 3600 s after
\* its end, which is 8600 s after its start.
C17_Witness ==
    /\ owner = "loop"
    /\ upc = "ingest"
    /\ cycle = 2
    /\ timer.since_ended = 3600
    /\ timer.since_started = 8600

\* C18: except between the assignments of one refresh, the published combined
\* list is the stable descending sort of the published single-asset list followed
\* by the published pair list: it is in non-increasing order of APY, has as many
\* elements, and for every APY the same elements in the same order.
C18_CombinedIsSortOfSorted ==
    (published.gen_combined >= 1 /\ upc \notin {"L217", "L218"}) =>
        /\ NonIncreasing(published.combined)
        /\ TiesKeepOrder(published.combined, published.assets \o published.asset_pairs)

\* Singles [{BTC, 0.02}] and pairs [{ETH, BTC, 0.05}]: combined is the pair, then
\* the single.
C18_Witness ==
    /\ upc = "returned"
    /\ Len(published.assets) = 1
    /\ published.assets[1].symbol = "Bitcoin"
    /\ published.assets[1].apy = 200
    /\ Len(published.asset_pairs) = 1
    /\ published.asset_pairs[1].symbol_0 = "Ethereum"
    /\ published.asset_pairs[1].symbol_1 = "Bitcoin"
    /\ published.asset_pairs[1].apy = 500
    /\ published.combined = <<published.asset_pairs[1], published.assets[1]>>

\* C19 (as claimed; gather hands ingest() the first exception at once): ingest()
\* has neither returned nor raised while a connector task it started is running.
C19_WaitsForEveryConnector ==
    ingestPc \in {"returned", "raised"} => \A c \in ConnectorSet : task[c] /= "running"

\* C20 (as claimed; _ingest_bancor has no test on the APY): every record a
\* connector returns has an APY above zero.
C20_ConnectorApyPositive ==
    \A c \in ConnectorSet : \A i \in 1..Len(out[c]) : out[c][i].apy > 0

\* C21: no two connector tasks hold the same limiter object, and on no limiter
\* object is more than one task suspended inside next().
C21_LimiterPerConnector ==
    /\ \A c \in ConnectorSet : \A d \in ConnectorSet \ {c} :
          conn[c].limiter /= 0 => conn[c].limiter /= conn[d].limiter
    /\ \A c \in ConnectorSet : \A d \in ConnectorSet \ {c} :
          ~ (/\ conn[c].pc = "acquire"
             /\ conn[d].pc = "acquire"
             /\ conn[c].limiter = conn[d].limiter)

\* All five limiters exist; zapper waits inside next() on its own while dydx and
\* aave, whose limiters carry the same name, have their requests in flight.
C21_Witness ==
    /\ made = 5
    /\ conn["zapper"].pc = "acquire"
    /\ conn["dydx"].pc = "get"
    /\ conn["aave"].pc = "get"
    /\ conn["dydx"].limiter /= conn["aave"].limiter

\* C22 (as claimed; ingest() opens one ClientSession and passes it to all five
\* connectors): no two connector tasks have a request in flight on the same session.
C22_SessionPerConnector ==
    \A c \in ConnectorSet : \A d \in ConnectorSet \ {c} :
        ~ (/\ conn[c].pc = "get"
           /\ conn[d].pc = "get"
           /\ conn[c].session = conn[d].session)

\* C23: at most one execution of _update_state is in flight; the startup refresh is
\* over before the loop task exists, the loop sleeps only between refreshes, and the
\* three published lists are of different refreshes only while that one execution
\* is between its assignments (lines 216 to 218).
C23_OneRefreshInFlight ==
    /\ running <= 1
    /\ (running = 1) = (upc \notin {"none", "returned", "raised"})
    /\ (owner = "init" /\ running = 1) => loopPc = "none"
    /\ loopPc = "sleep" => running = 0
    /\ loopPc = "update" => owner = "loop"
    /\ published.gen_assets <= cycle
    /\ (published.gen_assets /= published.gen_pairs) => (running = 1 /\ upc = "L217")
    /\ (published.gen_pairs /= published.gen_combined) => (running = 1 /\ upc = "L218")

\* The loop's refresh, the only execution in flight, is between its assignments:
\* the single-asset list is of the second refresh, the other two of the first.
C23_Witness ==
    /\ owner = "loop"
    /\ loopPc = "update"
    /\ running = 1
    /\ upc = "L217"
    /\ cycle = 2
    /\ published.gen_assets = 2
    /\ published.gen_pairs = 1

\* The records of what ingest() returned that have n assets.
C24_WithAssets(n) == {i \in 1..Len(locals.records) : Len(locals.records[i].assets) = n}

\* C24: when a refresh has returned, every published single-asset entry is made of
\* a record of exactly 1 asset and every published pair entry of a record of
\* exactly 2 assets, the combined list holds only such entries, and the lists are
\* as long as there are such records: a record of any other number of assets is in
\* none of the three lists.
C24_PublishedFromOneOrTwoAssets ==
    upc = "returned" =>
        /\ \A k \in 1..Len(published.assets) :
              /\ published.assets[k].kind = "single"
              /\ \E i \in C24_WithAssets(1) :
                    /\ published.assets[k].symbol = locals.records[i].assets[1].asset
                    /\ published.assets[k].protocol = locals.records[i].protocol
                    /\ published.assets[k].network = locals.records[i].network
                    /\ published.assets[k].apy = locals.records[i].apy
        /\ \A k \in 1..Len(published.asset_pairs) :
              /\ published.asset_pairs[k].kind = "pair"
              /\ \E i \in C24_WithAssets(2) :
                    /\ published.asset_pairs[k].symbol_0 = locals.records[i].assets[1].asset
                    /\ published.asset_pairs[k].symbol_1 = locals.records[i].assets[2].asset
                    /\ published.asset_pairs[k].protocol = locals.records[i].protocol
                    /\ published.asset_pairs[k].network = locals.records[i].network
                    /\ published.asset_pairs[k].apy = locals.records[i].apy
        /\ \A k \in 1..Len(published.combined) :
              \/ \E j \in 1..Len(published.assets) :
                    published.combined[k] = published.assets[j]
              \/ \E j \in 1..Len(published.asset_pairs) :
                    published.combined[k] = published.asset_pairs[j]
        /\ Len(published.assets) = Cardinality(C24_WithAssets(1))
        /\ Len(published.asset_pairs) = Cardinality(C24_WithAssets(2))
        /\ Len(published.combined) = Cardinality(C24_WithAssets(1))
                                        + Cardinality(C24_WithAssets(2))

\* A refresh has returned, ingest() had returned a record of three assets next to
\* records of one and of two, and all three published lists have entries.
C24_Witness ==
    /\ upc = "returned"
    /\ C24_WithAssets(3) /= {}
    /\ C24_WithAssets(1) /= {}
    /\ C24_WithAssets(2) /= {}
    /\ Len(published.combined) < Len(locals.records)
    /\ published.assets /= <<>>
    /\ published.asset_pairs /= <<>>

\* Connector c has only finitely many timeouts.
C25_TimeoutsEnd(c) == <>[][~ GetTimesOut(c)]_vars

\* C25: if no connector's requests time out for ever, the refresh cycle ends: the
\* snapshot is installed or the cycle has failed.
C25_CycleTerminates ==
    (\A c \in ConnectorSet : C25_TimeoutsEnd(c))
        => ((cyclePc = "ingest") ~> (cyclePc \in {"installed", "failed"}))

\* A cycle is running, one connector is in the sleep between two attempts after
\* a timeout and another is waiting for an answer.
C25_Witness ==
    /\ cyclePc = "ingest"
    /\ future = "pending"
    /\ conn["zapper"].pc = "backoff"
    /\ conn["zapper"].answered = 1
    /\ conn["yearn"].pc = "get"

\* The assets supported.py calls stable.
C26_Stable == {"DAI", "USD_Coin", "USD_Token"}

----------------------------------------------------------------------------
(* The specifications                                                       *)

Init ==
    /\ FetchIdle
    /\ IngestIdle
    /\ LimiterIdle
    /\ PureIdle
    /\ ApiInit
    /\ CycleIdle

Next == ApiNext

Spec == Init /\ [][Next]_vars

InitIngest ==
    /\ FetchIdle
    /\ ApiIdle
    /\ LimiterIdle
    /\ PureIdle
    /\ IngestInit
    /\ CycleIdle

SpecIngest == InitIngest /\ [][IngestNext]_vars

InitFetch ==
    /\ IngestIdle
    /\ ApiIdle
    /\ LimiterIdle
    /\ PureIdle
    /\ FetchInit
    /\ CycleIdle

SpecFetch == InitFetch /\ [][FetchNext]_vars

InitPure ==
    /\ FetchIdle
    /\ IngestIdle
    /\ ApiIdle
    /\ LimiterIdle
    /\ PureInit
    /\ CycleIdle

SpecPure == InitPure /\ [][PureNext]_vars

InitLimiter ==
    /\ FetchIdle
    /\ IngestIdle
    /\ ApiIdle
    /\ PureIdle
    /\ LimiterInit
    /\ CycleIdle

SpecLimiter == InitLimiter /\ [][LimiterNext]_vars

InitCycle ==
    /\ FetchIdle
    /\ IngestIdle
    /\ ApiIdle
    /\ LimiterIdle
    /\ PureIdle
    /\ CycleInit

SpecCycle == InitCycle /\ [][CycleNext]_vars

SpecCycleFair == InitCycle /\ [][CycleNext]_vars /\ CycleFairness

====
